---- MODULE Spec2Model ----
(***************************************************************************)
(* Model of main.py: the polling loop (monitor_loop), the in-memory        *)
(* hash-chained ledger (create_block) and the Flask handlers, as threads   *)
(* of one process sharing blockchain, prev_balances and prev_onchain_btc.  *)
(***************************************************************************)
EXTENDS Integers, Sequences, FiniteSets, TLC

(***************************************************************************)
(* Python floats are modelled as exact rationals [n, d] in lowest terms.   *)
(***************************************************************************)
RECURSIVE Gcd(_, _)
Gcd(a, b) == IF b = 0 THEN a ELSE Gcd(b, a % b)

Abs(x) == IF x < 0 THEN -x ELSE x

R(n, d) ==
    LET g == Gcd(Abs(n), Abs(d))
        s == IF d < 0 THEN -1 ELSE 1
    IN  [n |-> (s * n) \div g, d |-> (s * d) \div g]

Zero == R(0, 1)
RLt(a, b) == a.n * b.d < b.n * a.d
RGt(a, b) == RLt(b, a)
RAdd(a, b) == R(a.n * b.d + b.n * a.d, a.d * b.d)
RSub(a, b) == R(a.n * b.d - b.n * a.d, a.d * b.d)
RMul(a, b) == R(a.n * b.n, a.d * b.d)
RDiv(a, b) == R(a.n * b.d, a.d * b.n)

\* repr() of a float, as json.dumps writes it
NumStr(x) == IF x.d = 1 THEN ToString(x.n) ELSE ToString(x.n) \o "/" \o ToString(x.d)

(***************************************************************************)
(* float(): the decimal strings the model's inputs use, and their values.  *)
(* A string outside the table is not a number (float raises ValueError).   *)
(***************************************************************************)
FloatTable ==
    [s \in {"0.00000000", "10.00000000", "11.00000000", "5.00000000",
            "6.00000000", "0.00010000", "1.00000000", "0.50000000",
            "-1.00000000"} |->
        CASE s = "0.00000000"  -> R(0, 1)
          [] s = "10.00000000" -> R(10, 1)
          [] s = "11.00000000" -> R(11, 1)
          [] s = "5.00000000"  -> R(5, 1)
          [] s = "6.00000000"  -> R(6, 1)
          [] s = "0.00010000"  -> R(1, 10000)
          [] s = "1.00000000"  -> R(1, 1)
          [] s = "0.50000000"  -> R(1, 2)
          [] s = "-1.00000000" -> R(-1, 1)]

IsFloatStr(s) == s \in DOMAIN FloatTable
float(s) == FloatTable[s]

(***************************************************************************)
(* Ledger: create_block                                                    *)
(***************************************************************************)
GENESIS == "0000000000000000000000000000000000000000000000000000000000000000"

\* json.dumps(operation, sort_keys=True): keys in sorted order
dumps(operation) ==
    "{\"asset\": \"" \o operation.asset \o "\", \"price\": " \o NumStr(operation.price)
    \o ", \"quantity\": " \o NumStr(operation.quantity)
    \o ", \"side\": \"" \o operation.side \o "\"}"

\* hashlib.sha256(...).hexdigest(), taken as collision-free: the digest
\* determines its input and is never the genesis constant
sha256(s) == "sha256(" \o s \o ")"

Operation(side, quantity, price) ==
    [side |-> side, asset |-> "BTC", quantity |-> quantity, price |-> price]

\* create_block reading the last block's prev_hash field instead of its hash
NewBlockWrongField(operation, chain, ts) ==
    LET prev_hash == IF chain # <<>> THEN chain[Len(chain)].prev_hash ELSE GENESIS
        block_data == dumps(operation)
        block_hash == sha256(prev_hash \o block_data)
    IN  [timestamp |-> ts, operation |-> operation,
         hash |-> block_hash, prev_hash |-> prev_hash]

\* create_block hashing the operation alone
NewBlockUnchained(operation, chain, ts) ==
    LET prev_hash == IF chain # <<>> THEN chain[Len(chain)].hash ELSE GENESIS
        block_data == dumps(operation)
        block_hash == sha256(block_data)
    IN  [timestamp |-> ts, operation |-> operation,
         hash |-> block_hash, prev_hash |-> prev_hash]

\* lines 59-67 of create_block: the block built on the chain as read
NewBlock(operation, chain, ts) ==
    LET prev_hash == IF chain # <<>> THEN chain[Len(chain)].hash ELSE GENESIS
        block_data == dumps(operation)
        block_hash == sha256(prev_hash \o block_data)
    IN  [timestamp |-> ts, operation |-> operation,
         hash |-> block_hash, prev_hash |-> prev_hash]

(***************************************************************************)
(* Python dicts as functions on the set of their keys                      *)
(***************************************************************************)
EmptyDict == <<>>
Get(d, k, default) == IF k \in DOMAIN d THEN d[k] ELSE default
Put(d, k, v) == [x \in (DOMAIN d) \cup {k} |-> IF x = k THEN v ELSE d[x]]

(***************************************************************************)
(* Exchange and explorer answers                                           *)
(***************************************************************************)
\* account_json["balances"] entries
Bal(asset, free, locked) == [asset |-> asset, free |-> free, locked |-> locked]

get_nonzero_balances(account_json) ==
    LET totals == [i \in 1..Len(account_json) |->
                     [asset |-> account_json[i].asset,
                      total |-> RAdd(float(account_json[i].free),
                                     float(account_json[i].locked))]]
    IN  SelectSeq(totals, LAMBDA e : RGt(e.total, Zero))

\* outcome of the ticker request inside get_brl_price
Ticker(p) == [ok |-> TRUE, price |-> p]
TickerDown == [ok |-> FALSE, price |-> Zero]

get_brl_price(asset, reply) ==
    IF asset = "BRL" THEN R(1, 1)
    ELSE IF reply.ok THEN reply.price ELSE Zero

(***************************************************************************)
(* State                                                                   *)
(***************************************************************************)
VARIABLES
    blockchain,        \* the ledger (line 56)
    prev_balances,     \* asset -> last stored spot amount (line 141)
    prev_onchain_btc,  \* address -> last stored on-chain amount (line 142)
    btc_addresses,     \* BTC_ADDRESSES of the environment, split (line 144)
    m_pc,              \* position of monitor_loop
    nonzero,           \* monitor_loop local: the poll's non-zero balances
    m_i,               \* index of the running for loop
    table,             \* monitor_loop local
    table_onchain,     \* monitor_loop local
    btc_price,         \* monitor_loop local
    m_op,              \* the order being placed by monitor_loop
    m_block,           \* create_block local of the monitor thread
    log,               \* logging.error lines of the current cycle
    failed,            \* external calls that failed in the current cycle
    exchange,          \* orders the exchange accepted, in order
    now,               \* time.time(): instants read so far, each later than the last
    overlap,           \* history: some create_block began while another ran
    h_pc,              \* per /ordem handler thread: its position
    h_side,            \* api_ordem local
    h_qty,             \* api_ordem local
    h_price,           \* api_ordem local
    h_block,           \* create_block local of the handler thread
    h_resp,            \* the response the handler last returned
    s_resp,            \* the body GET /saldo last returned
    b_resp             \* the body GET /blockchain last returned

shared == <<blockchain, prev_balances, prev_onchain_btc, btc_addresses, exchange, now,
           overlap>>
mlocal == <<m_pc, nonzero, m_i, table, table_onchain, btc_price, m_op, m_block,
            log, failed>>
hlocal == <<h_pc, h_side, h_qty, h_price, h_block, h_resp>>
rlocal == <<s_resp, b_resp>>
vars == <<shared, mlocal, hlocal, rlocal>>

\* threads of the threaded Flask server that may run api_ordem at once
Handlers == {"h1", "h2"}

\* successful place_order calls the exchange accepts in a run
MaxOrders == 2

NoResp == [status |-> 0, body |-> "none"]

\* no GET /saldo answered yet
NoSaldo == [spot |-> EmptyDict, onchain |-> EmptyDict]

NoOp == Operation("", Zero, Zero)
NoBlock == [timestamp |-> 0, operation |-> NoOp, hash |-> "", prev_hash |-> ""]

\* the state after the module is loaded, with the configured addresses
Start(addresses) ==
    /\ btc_addresses = addresses
    /\ blockchain = <<>>
    /\ prev_balances = EmptyDict
    /\ prev_onchain_btc = EmptyDict
    /\ exchange = <<>>
    /\ m_pc = "fetch"
    /\ nonzero = <<>>
    /\ m_i = 1
    /\ table = <<>>
    /\ table_onchain = <<>>
    /\ btc_price = Zero
    /\ m_op = NoOp
    /\ m_block = NoBlock
    /\ log = {}
    /\ failed = {}
    /\ now = 0
    /\ overlap = FALSE
    /\ h_pc = [h \in Handlers |-> "idle"]
    /\ h_side = [h \in Handlers |-> ""]
    /\ h_qty = [h \in Handlers |-> Zero]
    /\ h_price = [h \in Handlers |-> Zero]
    /\ h_block = [h \in Handlers |-> NoBlock]
    /\ h_resp = [h \in Handlers |-> NoResp]
    /\ s_resp = NoSaldo
    /\ b_resp = <<>>

\* BTC_ADDRESSES unset: the default of line 143
Init == Start(<<>>)
\* BTC_ADDRESSES = "addr1,addr2"
InitAddrs == Start(<<"addr1", "addr2">>)

(***************************************************************************)
(* monitor_loop, one action per step between two external calls            *)
(***************************************************************************)
\* line 174: where the loop goes after the spot table
AfterSpot == IF btc_addresses # <<>> THEN "onchain" ELSE "price"

\* lines 154-156: the account request answers; the balance loop starts
MFetchOk(account_json) ==
    /\ m_pc = "fetch"
    /\ nonzero' = get_nonzero_balances(account_json)
    /\ table' = <<>>
    /\ m_i' = 1
    /\ log' = {}
    /\ failed' = {}
    /\ m_pc' = IF nonzero' # <<>> THEN "spot" ELSE AfterSpot
    /\ UNCHANGED <<rlocal, hlocal, shared, table_onchain, btc_price, m_op, m_block>>

\* the account request's exception escaping the loop
MFetchFailEscapes ==
    /\ m_pc = "fetch"
    /\ log' = {}
    /\ failed' = {"account"}
    /\ m_pc' = "stopped"
    /\ UNCHANGED <<rlocal, hlocal, shared, nonzero, m_i, table, table_onchain, btc_price, m_op,
                   m_block>>

\* the try block around the account request alone: the rest of the
\* iteration runs after the failure is logged
MFetchFailContinues ==
    /\ m_pc = "fetch"
    /\ log' = {"Erro geral"}
    /\ failed' = {"account"}
    /\ m_pc' = AfterSpot
    /\ UNCHANGED <<rlocal, hlocal, shared, nonzero, m_i, table, table_onchain, btc_price,
                   m_op, m_block>>

\* the loop with its sleep inside the try block: a caught exception goes
\* straight to the next iteration
MFetchFailNoSleep ==
    /\ m_pc = "fetch"
    /\ log' = {"Erro geral"}
    /\ failed' = {"account"}
    /\ m_pc' = "fetch"
    /\ UNCHANGED <<rlocal, hlocal, shared, nonzero, m_i, table, table_onchain, btc_price,
                   m_op, m_block>>

\* lines 154, 222-224: the account request raises; the outer handler logs
MFetchFail ==
    /\ m_pc = "fetch"
    /\ log' = {"Erro geral"}
    /\ failed' = {"account"}
    /\ m_pc' = "sleep"
    /\ UNCHANGED <<rlocal, hlocal, shared, nonzero, m_i, table, table_onchain, btc_price, m_op,
                   m_block>>

\* the spot loop with a price lookup whose failure is not caught inside
\* get_brl_price: it reaches the handler of lines 222-224
MSpotLookupRaises(reply) ==
    /\ m_pc = "spot"
    /\ LET asset == nonzero[m_i].asset
           amount == nonzero[m_i].total
           prev == Get(prev_balances, asset, Zero)
           diff == RSub(amount, prev)
           price_brl == get_brl_price(asset, reply)
           value_brl == RMul(amount, price_brl)
       IN  IF asset # "BRL" /\ ~reply.ok
           THEN /\ failed' = failed \cup {"ticker:" \o asset}
                /\ log' = log \cup {"Erro geral"}
                /\ m_pc' = "sleep"
                /\ UNCHANGED <<table, prev_balances, m_i>>
           ELSE /\ table' = Append(table, [asset |-> asset, amount |-> amount,
                                           value_brl |-> value_brl, diff |-> diff])
                /\ prev_balances' = Put(prev_balances, asset, amount)
                /\ m_i' = IF m_i < Len(nonzero) THEN m_i + 1 ELSE 1
                /\ m_pc' = IF m_i < Len(nonzero) THEN "spot" ELSE "spot_print"
                /\ UNCHANGED <<failed, log>>
    /\ UNCHANGED <<rlocal, hlocal, now, overlap, blockchain, prev_onchain_btc, btc_addresses,
                   exchange, nonzero, table_onchain, btc_price, m_op, m_block>>

\* lines 157-167: one iteration of the spot loop
MSpot(reply) ==
    /\ m_pc = "spot"
    /\ LET asset == nonzero[m_i].asset
           amount == nonzero[m_i].total
           prev == Get(prev_balances, asset, Zero)
           diff == RSub(amount, prev)
           price_brl == get_brl_price(asset, reply)
           value_brl == RMul(amount, price_brl)
       IN  /\ table' = Append(table, [asset |-> asset, amount |-> amount,
                                      value_brl |-> value_brl, diff |-> diff])
           /\ prev_balances' = Put(prev_balances, asset, amount)
           /\ failed' = IF asset # "BRL" /\ ~reply.ok
                        THEN failed \cup {"ticker:" \o asset} ELSE failed
    /\ m_i' = IF m_i < Len(nonzero) THEN m_i + 1 ELSE 1
    /\ m_pc' = IF m_i < Len(nonzero) THEN "spot" ELSE "spot_print"
    /\ UNCHANGED <<rlocal, hlocal, now, overlap, blockchain, prev_onchain_btc, btc_addresses,
                   exchange, nonzero, table_onchain, btc_price, m_op, m_block, log>>

\* lines 169-171: the finished table is printed; table and nonzero are not
\* read again in this iteration
MSpotPrint ==
    /\ m_pc = "spot_print"
    /\ table' = <<>>
    /\ nonzero' = <<>>
    /\ m_pc' = AfterSpot
    /\ UNCHANGED <<rlocal, hlocal, shared, m_i, table_onchain, btc_price, m_op, m_block, log,
                   failed>>

\* lines 176-178, 183-188: the explorer answers for the address in turn
MOnchainOk(bal) ==
    /\ m_pc = "onchain"
    /\ LET addr == btc_addresses[m_i]
           prev == Get(prev_onchain_btc, addr, Zero)
           delta == RSub(bal, prev)
       IN  /\ table_onchain' = Append(table_onchain,
                                  [addr |-> addr, bal |-> bal, delta |-> delta])
           /\ prev_onchain_btc' = Put(prev_onchain_btc, addr, bal)
    /\ m_i' = IF m_i < Len(btc_addresses) THEN m_i + 1 ELSE 1
    /\ m_pc' = IF m_i < Len(btc_addresses) THEN "onchain" ELSE "onchain_print"
    /\ UNCHANGED <<rlocal, hlocal, now, overlap, blockchain, prev_balances, btc_addresses,
                   exchange, nonzero, table, btc_price, m_op, m_block, log, failed>>

\* the on-chain loop leaving at the first failed address
MOnchainFailBreaks ==
    /\ m_pc = "onchain"
    /\ LET addr == btc_addresses[m_i]
       IN  /\ log' = log \cup {"Erro on-chain " \o addr}
           /\ failed' = failed \cup {"onchain:" \o addr}
    /\ m_i' = 1
    /\ m_pc' = "onchain_print"
    /\ UNCHANGED <<rlocal, hlocal, shared, nonzero, table, table_onchain, btc_price, m_op, m_block>>

\* lines 179-182: the explorer request raises; logged, next address
MOnchainFail ==
    /\ m_pc = "onchain"
    /\ LET addr == btc_addresses[m_i]
       IN  /\ log' = log \cup {"Erro on-chain " \o addr}
           /\ failed' = failed \cup {"onchain:" \o addr}
    /\ m_i' = IF m_i < Len(btc_addresses) THEN m_i + 1 ELSE 1
    /\ m_pc' = IF m_i < Len(btc_addresses) THEN "onchain" ELSE "onchain_print"
    /\ UNCHANGED <<rlocal, hlocal, shared, nonzero, table, table_onchain, btc_price, m_op, m_block>>

\* lines 189-191: the on-chain table is printed, if it has rows
MOnchainPrint ==
    /\ m_pc = "onchain_print"
    /\ table_onchain' = <<>>
    /\ m_pc' = "price"
    /\ UNCHANGED <<rlocal, hlocal, shared, nonzero, m_i, table, btc_price, m_op, m_block, log,
                   failed>>

\* line 194
MPrice(reply) ==
    /\ m_pc = "price"
    /\ btc_price' = get_brl_price("BTC", reply)
    /\ failed' = IF reply.ok THEN failed ELSE failed \cup {"ticker:decision"}
    /\ m_pc' = "decide"
    /\ UNCHANGED <<rlocal, hlocal, shared, nonzero, m_i, table, table_onchain, m_op, m_block, log>>

\* the decision buying with a balance of exactly the minimum
DecisionBuyAtMinimum(price, balances) ==
    IF RGt(price, Zero)
    THEN IF RLt(price, R(100000, 1))
         THEN LET brl_balance == Get(balances, "BRL", Zero)
              IN  IF ~RLt(brl_balance, R(10, 1))
                  THEN Operation("BUY", RDiv(brl_balance, price), price)
                  ELSE NoOp
         ELSE IF RGt(price, R(120000, 1))
              THEN LET btc_balance == Get(balances, "BTC", Zero)
                   IN  IF RGt(btc_balance, R(1, 10000))
                       THEN Operation("SELL", btc_balance, price)
                       ELSE NoOp
              ELSE NoOp
    ELSE NoOp

\* the decision selling at the threshold price itself
DecisionSellAtThreshold(price, balances) ==
    IF RGt(price, Zero)
    THEN IF RLt(price, R(100000, 1))
         THEN LET brl_balance == Get(balances, "BRL", Zero)
              IN  IF RGt(brl_balance, R(10, 1))
                  THEN Operation("BUY", RDiv(brl_balance, price), price)
                  ELSE NoOp
         ELSE IF ~RLt(price, R(120000, 1))
              THEN LET btc_balance == Get(balances, "BTC", Zero)
                   IN  IF RGt(btc_balance, R(1, 10000))
                       THEN Operation("SELL", btc_balance, price)
                       ELSE NoOp
              ELSE NoOp
    ELSE NoOp

\* the decision without the guard of line 195 on the price
DecisionAnyPrice(price, balances) ==
    IF RLt(price, R(100000, 1))
    THEN LET brl_balance == Get(balances, "BRL", Zero)
         IN  IF RGt(brl_balance, R(10, 1))
             THEN Operation("BUY", RDiv(brl_balance, price), price)
             ELSE NoOp
    ELSE IF RGt(price, R(120000, 1))
         THEN LET btc_balance == Get(balances, "BTC", Zero)
              IN  IF RGt(btc_balance, R(1, 10000))
                  THEN Operation("SELL", btc_balance, price)
                  ELSE NoOp
         ELSE NoOp

\* lines 195-200, 210-212: the order the cycle decides on, NoOp for none
Decision(price, balances) ==
    IF RGt(price, Zero)
    THEN IF RLt(price, R(100000, 1))
         THEN LET brl_balance == Get(balances, "BRL", Zero)
              IN  IF RGt(brl_balance, R(10, 1))
                  THEN Operation("BUY", RDiv(brl_balance, price), price)
                  ELSE NoOp
         ELSE IF RGt(price, R(120000, 1))
              THEN LET btc_balance == Get(balances, "BTC", Zero)
                   IN  IF RGt(btc_balance, R(1, 10000))
                       THEN Operation("SELL", btc_balance, price)
                       ELSE NoOp
              ELSE NoOp
    ELSE NoOp

MDecide ==
    /\ m_pc = "decide"
    /\ m_op' = Decision(btc_price, prev_balances)
    /\ m_pc' = IF m_op' # NoOp THEN "order" ELSE "sleep"
    /\ UNCHANGED <<rlocal, hlocal, shared, nonzero, m_i, table, table_onchain, btc_price, m_block,
                   log, failed>>

\* place_order's request as the exchange receives it (lines 111-117); quote is
\* the price the caller held, kept beside the order for the ledger's checks
Order(side, quantity, quote) ==
    [symbol |-> "BTCBRL", side |-> side, type |-> "MARKET",
     quantity |-> quantity, quote |-> quote]

\* handler threads between create_block's read (line 59) and append (line 68)
HAppending == {h \in Handlers : h_pc[h] = "append"}

\* lines 202, 214: place_order returns
MOrderOk ==
    /\ m_pc = "order"
    /\ Len(exchange) < MaxOrders
    /\ exchange' = Append(exchange, Order(m_op.side, m_op.quantity, m_op.price))
    /\ m_pc' = "create"
    /\ UNCHANGED <<rlocal, hlocal, blockchain, prev_balances, prev_onchain_btc, btc_addresses, now, overlap,
                   nonzero, m_i, table, table_onchain, btc_price, m_op, m_block,
                   log, failed>>

\* the polling cycle recording the block although place_order raised
MOrderFailRecorded ==
    /\ m_pc = "order"
    /\ log' = log \cup {IF m_op.side = "BUY" THEN "Erro ao comprar BTC"
                                             ELSE "Erro ao vender BTC"}
    /\ failed' = failed \cup {"order"}
    /\ m_pc' = "create"
    /\ UNCHANGED <<rlocal, hlocal, shared, nonzero, m_i, table, table_onchain, btc_price,
                   m_op, m_block>>

\* lines 202, 206-208 and 214, 218-220: place_order raises
MOrderFail ==
    /\ m_pc = "order"
    /\ log' = log \cup {IF m_op.side = "BUY" THEN "Erro ao comprar BTC"
                                             ELSE "Erro ao vender BTC"}
    /\ failed' = failed \cup {"order"}
    /\ m_pc' = "sleep"
    /\ UNCHANGED <<rlocal, hlocal, shared, nonzero, m_i, table, table_onchain, btc_price,
                   m_op, m_block>>

\* lines 203, 215 -> 59-67: create_block reads the chain and builds the block
MCreateRead ==
    /\ m_pc = "create"
    /\ m_block' = NewBlock(m_op, blockchain, now)
    /\ now' = now + 1
    /\ overlap' = (overlap \/ HAppending # {})
    /\ m_pc' = "append"
    /\ UNCHANGED <<rlocal, hlocal, blockchain, prev_balances, prev_onchain_btc, btc_addresses,
                   exchange, nonzero, m_i, table, table_onchain, btc_price, m_op, log,
                   failed>>

\* create_block putting the new block at the head of the list
MCreateAppendAtHead ==
    /\ m_pc = "append"
    /\ blockchain' = <<m_block>> \o blockchain
    /\ m_pc' = "sleep"
    /\ UNCHANGED <<rlocal, hlocal, prev_balances, prev_onchain_btc, btc_addresses, exchange,
                   now, overlap, nonzero, m_i, table, table_onchain, btc_price, m_op,
                   m_block, log, failed>>

\* create_block storing the block before its hash is filled in
MCreateAppendUnhashed ==
    /\ m_pc = "append"
    /\ blockchain' = Append(blockchain, [m_block EXCEPT !.hash = ""])
    /\ m_pc' = "sleep"
    /\ UNCHANGED <<rlocal, hlocal, prev_balances, prev_onchain_btc, btc_addresses, exchange,
                   now, overlap, nonzero, m_i, table, table_onchain, btc_price, m_op,
                   m_block, log, failed>>

\* line 68, then 204-205 / 216-217
MCreateAppend ==
    /\ m_pc = "append"
    /\ blockchain' = Append(blockchain, m_block)
    /\ m_pc' = "sleep"
    /\ UNCHANGED <<rlocal, hlocal, prev_balances, prev_onchain_btc, btc_addresses, exchange, now, overlap,
                   nonzero, m_i, table, table_onchain, btc_price, m_op, m_block,
                   log, failed>>

\* line 226: the sleep ends and the next iteration begins; the locals of the
\* finished iteration are dead
MSleep ==
    /\ m_pc = "sleep"
    /\ m_pc' = "fetch"
    /\ nonzero' = <<>>
    /\ m_i' = 1
    /\ table' = <<>>
    /\ table_onchain' = <<>>
    /\ btc_price' = Zero
    /\ m_op' = NoOp
    /\ m_block' = NoBlock
    /\ UNCHANGED <<rlocal, hlocal, shared, log, failed>>

(***************************************************************************)
(* api_ordem (POST /ordem), run by a handler thread h                      *)
(***************************************************************************)
\* JSON values of a request body: t is the JSON type
JAbsent == [t |-> "absent", s |-> "", v |-> Zero]
JNull == [t |-> "null", s |-> "", v |-> Zero]
JStr(s) == [t |-> "str", s |-> s, v |-> Zero]
JNum(v) == [t |-> "num", s |-> "", v |-> v]

\* request.json: None (JSON null), or an object with or without the two keys
NullBody == [obj |-> FALSE, side |-> JAbsent, quantity |-> JAbsent]
Body(side, quantity) == [obj |-> TRUE, side |-> side, quantity |-> quantity]

\* str.upper() on the side strings the model sends
upper(s) ==
    CASE s = "buy" -> "BUY"
      [] s = "sell" -> "SELL"
      [] OTHER -> s

\* line 242: the guard on the body
BodyRejected(data) ==
    \/ ~data.obj
    \/ (data.side.t = "absent" /\ data.quantity.t = "absent")
    \/ data.side.t = "absent"
    \/ data.quantity.t = "absent"

\* line 244 raises AttributeError unless side is a string; line 245 raises
\* TypeError or ValueError unless quantity is a number or a numeric string
BodyFaults(data) ==
    \/ data.side.t # "str"
    \/ data.quantity.t \notin {"num", "str"}
    \/ (data.quantity.t = "str" /\ ~IsFloatStr(data.quantity.s))

BodyQty(data) ==
    IF data.quantity.t = "num" THEN data.quantity.v ELSE float(data.quantity.s)

Idle(h) ==
    /\ h_pc' = [h_pc EXCEPT ![h] = "idle"]
    /\ h_side' = [h_side EXCEPT ![h] = ""]
    /\ h_qty' = [h_qty EXCEPT ![h] = Zero]
    /\ h_price' = [h_price EXCEPT ![h] = Zero]
    /\ h_block' = [h_block EXCEPT ![h] = NoBlock]

\* lines 241-245: the request arrives and its body is read
ORequest(h, data) ==
    /\ h_pc[h] = "idle"
    /\ IF BodyRejected(data)
       THEN /\ h_resp' = [h_resp EXCEPT ![h] = [status |-> 400, body |-> "erro"]]
            /\ UNCHANGED <<h_pc, h_side, h_qty, h_price, h_block>>
       ELSE IF BodyFaults(data)
       THEN /\ h_resp' = [h_resp EXCEPT ![h] = [status |-> 500, body |-> "unhandled"]]
            /\ UNCHANGED <<h_pc, h_side, h_qty, h_price, h_block>>
       ELSE /\ h_side' = [h_side EXCEPT ![h] = upper(data.side.s)]
            /\ h_qty' = [h_qty EXCEPT ![h] = BodyQty(data)]
            /\ h_pc' = [h_pc EXCEPT ![h] = "price"]
            /\ h_resp' = [h_resp EXCEPT ![h] = NoResp]
            /\ UNCHANGED <<h_price, h_block>>
    /\ UNCHANGED <<shared, mlocal, rlocal>>

\* line 247
OPrice(h, reply) ==
    /\ h_pc[h] = "price"
    /\ h_price' = [h_price EXCEPT ![h] = get_brl_price("BTC", reply)]
    /\ h_pc' = [h_pc EXCEPT ![h] = "order"]
    /\ UNCHANGED <<shared, mlocal, rlocal, h_side, h_qty, h_block, h_resp>>

\* line 248: place_order returns
OOrderOk(h) ==
    /\ h_pc[h] = "order"
    /\ Len(exchange) < MaxOrders
    /\ exchange' = Append(exchange, Order(h_side[h], h_qty[h], h_price[h]))
    /\ h_pc' = [h_pc EXCEPT ![h] = "create"]
    /\ UNCHANGED <<blockchain, prev_balances, prev_onchain_btc, btc_addresses, now, overlap, mlocal, rlocal,
                   h_side, h_qty, h_price, h_block, h_resp>>

\* api_ordem answering a failed submission as a success
OOrderFailOk(h) ==
    /\ h_pc[h] = "order"
    /\ h_resp' = [h_resp EXCEPT ![h] = [status |-> 200, body |-> "erro"]]
    /\ Idle(h)
    /\ UNCHANGED <<shared, mlocal, rlocal>>

\* lines 248, 251-252: place_order raises
OOrderFail(h) ==
    /\ h_pc[h] = "order"
    /\ h_resp' = [h_resp EXCEPT ![h] = [status |-> 500, body |-> "erro"]]
    /\ Idle(h)
    /\ UNCHANGED <<shared, mlocal, rlocal>>

\* line 249 -> 59-67
OCreateRead(h) ==
    /\ h_pc[h] = "create"
    /\ h_block' = [h_block EXCEPT ![h] =
                     NewBlock(Operation(h_side[h], h_qty[h], h_price[h]),
                              blockchain, now)]
    /\ now' = now + 1
    /\ overlap' = (overlap \/ HAppending # {} \/ m_pc = "append")
    /\ h_pc' = [h_pc EXCEPT ![h] = "append"]
    /\ UNCHANGED <<blockchain, prev_balances, prev_onchain_btc, btc_addresses,
                   exchange, mlocal, rlocal, h_side, h_qty, h_price, h_resp>>

\* lines 68, 250
OCreateAppend(h) ==
    /\ h_pc[h] = "append"
    /\ blockchain' = Append(blockchain, h_block[h])
    /\ h_resp' = [h_resp EXCEPT ![h] = [status |-> 200, body |-> "order_block"]]
    /\ Idle(h)
    /\ UNCHANGED <<prev_balances, prev_onchain_btc, btc_addresses, exchange, now, overlap, mlocal, rlocal>>

(***************************************************************************)
(* api_saldo (GET /saldo) and api_blockchain (GET /blockchain)             *)
(***************************************************************************)
\* lines 231-233: jsonify serialises the two dicts as they are at the instant
\* of the call; the handler takes no lock and the encoder runs in one piece
api_saldo ==
    /\ s_resp' = [spot |-> prev_balances, onchain |-> prev_onchain_btc]
    /\ UNCHANGED <<shared, mlocal, hlocal, b_resp>>

\* lines 235-237: jsonify serialises the list as it is at the instant of the
\* call
api_blockchain ==
    /\ b_resp' = blockchain
    /\ UNCHANGED <<shared, mlocal, hlocal, s_resp>>

(***************************************************************************)
(* Inputs                                                                  *)
(***************************************************************************)
Prices == {R(99999, 1), R(100000, 1), R(120000, 1), R(120001, 1)}
Replies == {Ticker(p) : p \in Prices} \cup {TickerDown}

BRLEntries == {Bal("BRL", "0.00000000", "0.00000000"),
               Bal("BRL", "10.00000000", "0.00000000"),
               Bal("BRL", "5.00000000", "6.00000000")}
BTCEntries == {Bal("BTC", "0.00000000", "0.00000000"),
               Bal("BTC", "0.00010000", "0.00000000"),
               Bal("BTC", "0.50000000", "0.50000000")}
Accounts == {<<a, b>> : a \in BRLEntries, b \in BTCEntries}
            \cup {<<b, a>> : a \in BRLEntries, b \in BTCEntries}

FewReplies == {Ticker(R(120001, 1)), TickerDown}
FewAccounts == {<<Bal("BRL", "5.00000000", "6.00000000"),
                  Bal("BTC", "0.50000000", "0.50000000")>>}

OnchainBalances == {R(0, 1), R(1, 2)}

Bodies == {NullBody,
           Body(JAbsent, JAbsent),
           Body(JAbsent, JNum(R(1, 1))),
           Body(JStr("sell"), JAbsent),
           Body(JNum(R(1, 1)), JNum(R(1, 1))),
           Body(JStr("sell"), JStr("abc")),
           Body(JStr("sell"), JNull),
           Body(JStr("sell"), JStr("1.00000000")),
           Body(JStr("sell"), JNum(R(1, 1)))}

\* the steps of monitor_loop but the on-chain ones, on the given answers
MonitorCore(accounts, replies) ==
    \/ \E a \in accounts : MFetchOk(a)
    \/ MFetchFail
    \/ \E r \in replies : MSpot(r)
    \/ MSpotPrint
    \/ \E r \in replies : MPrice(r)
    \/ MDecide
    \/ MOrderOk
    \/ MOrderFail
    \/ MCreateRead
    \/ MCreateAppend
    \/ MSleep

MonitorOnchain ==
    \/ \E b \in OnchainBalances : MOnchainOk(b)
    \/ MOnchainFail
    \/ MOnchainPrint

OrdemNext ==
    \E h \in Handlers :
        \/ \E d \in Bodies : ORequest(h, d)
        \/ \E r \in FewReplies : OPrice(h, r)
        \/ OOrderOk(h)
        \/ OOrderFail(h)
        \/ OCreateRead(h)
        \/ OCreateAppend(h)

\* The process in its default configuration: the polling thread, the /ordem
\* handler threads
Next == MonitorCore(FewAccounts, FewReplies) \/ OrdemNext

Spec == Init /\ [][Next]_vars

\* The polling thread alone, with addresses configured, on the full inputs
CycleNext == MonitorCore(Accounts, Replies) \/ MonitorOnchain

CycleSpec == InitAddrs /\ [][CycleNext]_vars

\* the polling thread is a running thread: it is scheduled again and again, and
\* every external call returns or times out (timeouts of lines 83, 102, 123, 130)
CycleLive == CycleSpec /\ WF_vars(CycleNext)

\* one /ordem handler thread
OneOrdem ==
    \/ \E d \in Bodies : ORequest("h1", d)
    \/ \E r \in FewReplies : OPrice("h1", r)
    \/ OOrderOk("h1")
    \/ OOrderFail("h1")
    \/ OCreateRead("h1")
    \/ OCreateAppend("h1")

\* The process serving all three routes: the polling thread, one /ordem
\* handler thread, and the handlers of GET /saldo and GET /blockchain
ServeNext ==
    \/ MonitorCore(FewAccounts, FewReplies)
    \/ OneOrdem
    \/ api_saldo
    \/ api_blockchain

ServeSpec == Init /\ [][ServeNext]_vars

\* answers that carry a negative amount: an account whose BRL entry is
\* negative, an explorer whose spent sum exceeds its funded sum
SignedAccounts == {<<Bal("BRL", "-1.00000000", "0.00000000"),
                     Bal("BTC", "0.50000000", "0.50000000")>>,
                   <<Bal("BRL", "5.00000000", "6.00000000"),
                     Bal("BTC", "0.50000000", "0.50000000")>>}
SignedOnchain == {R(-1, 2), R(1, 2)}

\* The polling thread alone, with addresses configured, on answers that may
\* be negative
SignedNext ==
    \/ MonitorCore(SignedAccounts, FewReplies)
    \/ \E b \in SignedOnchain : MOnchainOk(b)
    \/ MOnchainFail
    \/ MOnchainPrint

SignedSpec == InitAddrs /\ [][SignedNext]_vars

(***************************************************************************)
(* Ledger properties                                                       *)
(***************************************************************************)
ChainLinked(chain) ==
    \A i \in 1..Len(chain) :
        chain[i].prev_hash = IF i = 1 THEN GENESIS ELSE chain[i - 1].hash

NoSharedPrev(chain) ==
    \A i, j \in 1..Len(chain) : i # j => chain[i].prev_hash # chain[j].prev_hash

\* C1: as long as no create_block call has begun while another was between
\* its read and its append, the first block's prev_hash is the genesis digest
\* and every later block's prev_hash is the hash of the block before it.
C1_SequentialAppendsLink == ~overlap => ChainLinked(blockchain)

\* two blocks, appended one after the other by create_block calls that did
\* not overlap, one of them by a manual order that found no price
C1_Witness ==
    /\ ~overlap
    /\ Len(blockchain) = 2
    /\ \E i \in 1..2 : blockchain[i].operation.price = Zero
    /\ \E i \in 1..2 : blockchain[i].operation.price = R(120001, 1)

\* C2: whatever the interleaving of the polling cycle and the /ordem
\* handlers, no two blocks share a prev_hash and every block's prev_hash is
\* the hash of the block stored before it.
C2_ConcurrentAppendsLink == ChainLinked(blockchain) /\ NoSharedPrev(blockchain)

InFlight == {"create", "append"}
HOperation(h) == Operation(h_side[h], h_qty[h], h_price[h])
OrderOperation(o) ==
    [side |-> o.side, asset |-> IF o.symbol = "BTCBRL" THEN "BTC" ELSE o.symbol,
     quantity |-> o.quantity, price |-> o.quote]

Recorded(x) == Cardinality({i \in 1..Len(blockchain) : blockchain[i].operation = x})
Pending(x) ==
    (IF m_pc \in InFlight /\ m_op = x THEN 1 ELSE 0)
    + Cardinality({h \in Handlers : h_pc[h] \in InFlight /\ HOperation(h) = x})
Accepted(x) == Cardinality({i \in 1..Len(exchange) : OrderOperation(exchange[i]) = x})

AllOperations ==
    {blockchain[i].operation : i \in 1..Len(blockchain)}
    \cup {OrderOperation(exchange[i]) : i \in 1..Len(exchange)}
    \cup {m_op} \cup {HOperation(h) : h \in Handlers}

Quiescent == m_pc \notin InFlight /\ \A h \in Handlers : h_pc[h] \notin InFlight

\* C3: every accepted order is matched by exactly one block with the same
\* side, asset, quantity and price, recorded already or held by the thread
\* that is between place_order and the append; with none in flight the ledger
\* has as many blocks as the exchange accepted orders.
C3_OneBlockPerAcceptedOrder ==
    /\ \A x \in AllOperations : Recorded(x) + Pending(x) = Accepted(x)
    /\ Quiescent => Len(blockchain) = Len(exchange)

\* an order of the polling cycle and a manual order, both accepted and both
\* recorded, nothing in flight
C3_Witness ==
    /\ Quiescent
    /\ Len(blockchain) = 2
    /\ \E i \in 1..2 : blockchain[i].operation = Operation("SELL", R(1, 1), Zero)
    /\ \E i \in 1..2 : blockchain[i].operation = Operation("SELL", R(1, 1), R(120001, 1))
    /\ h_resp["h1"].status = 200

MonitorOrderRaised == m_pc = "order" /\ m_pc' # "order" /\ exchange' = exchange
HandlerOrderRaised(h) ==
    h_pc[h] = "order" /\ h_pc'[h] # "order" /\ exchange' = exchange

\* C4: a step in which place_order raises (the thread leaves the order call
\* and the exchange accepted nothing) leaves the ledger as it was; the
\* polling cycle logs the error and goes on to the sleep, the manual order
\* answers status 500 with an error body; the ledger never holds more blocks
\* than the exchange accepted orders.
C4_FailedOrderAppendsNothing ==
    /\ [](Len(blockchain) <= Len(exchange))
    /\ [][/\ MonitorOrderRaised =>
               /\ blockchain' = blockchain
               /\ log' \ log \in {{"Erro ao comprar BTC"}, {"Erro ao vender BTC"}}
               /\ m_pc' = "sleep"
          /\ \A h \in Handlers :
               HandlerOrderRaised(h) =>
                   /\ blockchain' = blockchain
                   /\ h_resp'[h] = [status |-> 500, body |-> "erro"]
                   /\ h_pc'[h] = "idle"]_vars

\* the polling cycle's order and a manual order have both failed and the
\* ledger is still empty
C4_Witness ==
    /\ m_pc = "sleep"
    /\ "Erro ao vender BTC" \in log
    /\ h_resp["h1"] = [status |-> 500, body |-> "erro"]
    /\ blockchain = <<>>
    /\ exchange = <<>>

(***************************************************************************)
(* Polling cycle properties                                                *)
(***************************************************************************)
Deciding == m_pc = "decide" /\ m_pc' # "decide"
StoredBRL == Get(prev_balances, "BRL", Zero)
StoredBTC == Get(prev_balances, "BTC", Zero)
Submits(side) == m_pc' = "order" /\ m_op'.side = side

BuyCase ==
    /\ RLt(Zero, btc_price)
    /\ RLt(btc_price, R(100000, 1))
    /\ RLt(R(10, 1), StoredBRL)

SellCase ==
    /\ RLt(R(120000, 1), btc_price)
    /\ RLt(R(1, 10000), StoredBTC)

\* C5: the decision step goes on to submit a BUY exactly when
\* 0 < btc_price < 100000 and the stored BRL balance is above 10, for the
\* quantity BRL balance / btc_price at that price; with a BRL balance of 10 or
\* less and a price below 100000 it submits nothing.
C5_BuyRule ==
    [][Deciding =>
         /\ Submits("BUY") <=> BuyCase
         /\ Submits("BUY") =>
               m_op' = [side |-> "BUY", asset |-> "BTC",
                        quantity |-> RDiv(StoredBRL, btc_price), price |-> btc_price]
         /\ (~RLt(R(10, 1), StoredBRL) /\ RLt(btc_price, R(100000, 1)))
               => (m_pc' = "sleep" /\ m_op' = NoOp)]_vars

\* the cycle is about to submit the BUY of 11 BRL at 99999
C5_Witness ==
    /\ m_pc = "order"
    /\ m_op = Operation("BUY", R(11, 99999), R(99999, 1))
    /\ StoredBRL = R(11, 1)

\* C6: the decision step goes on to submit a SELL exactly when
\* btc_price > 120000 and the stored BTC balance is above 0.0001, for the
\* whole BTC balance; at btc_price = 120000 it submits nothing.
C6_SellRule ==
    [][Deciding =>
         /\ Submits("SELL") <=> SellCase
         /\ Submits("SELL") =>
               m_op' = [side |-> "SELL", asset |-> "BTC",
                        quantity |-> StoredBTC, price |-> btc_price]
         /\ btc_price = R(120000, 1) => (m_pc' = "sleep" /\ m_op' = NoOp)]_vars

\* the cycle is about to submit the SELL of its whole bitcoin at 120001
C6_Witness ==
    /\ m_pc = "order"
    /\ m_op = Operation("SELL", R(1, 1), R(120001, 1))
    /\ StoredBTC = R(1, 1)

HoldCase ==
    \/ ~RLt(Zero, btc_price)
    \/ (~RLt(btc_price, R(100000, 1)) /\ ~RLt(R(120000, 1), btc_price))

\* C7: with btc_price <= 0, which is what a failed lookup gives, or with
\* 100000 <= btc_price <= 120000, the decision step goes to the sleep with no
\* order, and neither the exchange nor the ledger changes before the next
\* cycle.
C7_NoOrderOutsideRules ==
    /\ [](m_pc = "decide" /\ "ticker:decision" \in failed => btc_price = Zero)
    /\ [][Deciding /\ HoldCase =>
            /\ m_pc' = "sleep"
            /\ m_op' = NoOp
            /\ blockchain' = blockchain
            /\ exchange' = exchange]_vars

\* the cycle sleeps without an order at the price 120000, holding 11 BRL and
\* one bitcoin
C7_Witness ==
    /\ m_pc = "sleep"
    /\ btc_price = R(120000, 1)
    /\ StoredBRL = R(11, 1)
    /\ StoredBTC = R(1, 1)
    /\ m_op = NoOp

\* C8: the loop starts a cycle again and again, whichever call failed.
C8_LoopNeverStops == []<>(m_pc = "fetch")

\* the loop is back at the account request after a cycle whose account
\* request failed
C8_Witness == m_pc = "fetch" /\ "Erro geral" \in log

Addresses == {btc_addresses[i] : i \in 1..Len(btc_addresses)}
OnchainFailedNow(a) == ("onchain:" \o a) \in failed' /\ ("onchain:" \o a) \notin failed

\* C9: the step in which the lookup of an address fails changes no stored
\* on-chain balance and moves on to the next address or to the end of the
\* loop; at the end of the loop every address whose lookup did not fail holds
\* the balance looked up in this cycle; from there the cycle goes on to the
\* price.
C9_OnchainFailureIsolated ==
    /\ [](m_pc = "onchain_print" =>
            \A a \in Addresses :
                \/ ("onchain:" \o a) \in failed
                \/ \E i \in 1..Len(table_onchain) :
                      /\ table_onchain[i].addr = a
                      /\ a \in DOMAIN prev_onchain_btc
                      /\ prev_onchain_btc[a] = table_onchain[i].bal)
    /\ [][/\ \A a \in Addresses :
               OnchainFailedNow(a) =>
                   /\ prev_onchain_btc' = prev_onchain_btc
                   /\ m_pc' \in {"onchain", "onchain_print"}
                   /\ (m_pc' = "onchain" => m_i' = m_i + 1)
          /\ m_pc = "onchain_print" => m_pc' \in {"onchain_print", "price"}]_vars

\* the first address failed in a cycle, its balance is the one an earlier
\* cycle stored, the second address was updated, and the cycle is deciding
C9_Witness ==
    /\ m_pc = "decide"
    /\ "onchain:addr1" \in failed
    /\ "onchain:addr2" \notin failed
    /\ prev_onchain_btc = [a \in {"addr1", "addr2"} |->
                             IF a = "addr1" THEN R(1, 2) ELSE Zero]

TickerFailedNow(a) == ("ticker:" \o a) \in failed' /\ ("ticker:" \o a) \notin failed

\* C10: the spot iteration in which an asset's price lookup fails gives the
\* asset the value zero and stores its amount; at the end of the spot loop
\* every asset of the poll holds its polled amount; a failed lookup ends
\* nothing: the cycle goes on with the next asset or the rest of the cycle.
C10_PriceFailureIsolated ==
    /\ [](m_pc = "spot_print" =>
            /\ Len(table) = Len(nonzero)
            /\ \A i \in 1..Len(nonzero) :
                  /\ nonzero[i].asset \in DOMAIN prev_balances
                  /\ prev_balances[nonzero[i].asset] = nonzero[i].total
                  /\ table[i].amount = nonzero[i].total
                  /\ ("ticker:" \o nonzero[i].asset) \in failed
                        => table[i].value_brl = Zero)
    /\ [][\A i \in 1..Len(nonzero) :
            TickerFailedNow(nonzero[i].asset) =>
                /\ m_pc = "spot" /\ m_i = i
                /\ Len(table') = i
                /\ table'[i].value_brl = Zero
                /\ prev_balances' = Put(prev_balances, nonzero[i].asset, nonzero[i].total)
                /\ m_pc' \in {"spot", "spot_print"}
                /\ log' = log]_vars

\* the bitcoin price lookup failed in the spot loop of a poll that listed
\* bitcoin first; both balances are stored and the cycle is deciding
C10_Witness ==
    /\ m_pc = "decide"
    /\ "ticker:BTC" \in failed
    /\ StoredBTC = R(1, 1)
    /\ StoredBRL = R(11, 1)
    /\ btc_price = R(99999, 1)

(***************************************************************************)
(* Query surface                                                           *)
(***************************************************************************)
\* a request that api_ordem answered without leaving for the exchange
AnsweredAtOnce(h) == h_pc[h] = "idle" /\ h_pc'[h] = "idle" /\ h_resp'[h] # h_resp[h]

ClientError(resp) == resp.status \in 400..499 /\ resp.body = "erro"

\* C11: a manual order request with a missing body, a missing side or
\* quantity, or an invalid value for either is answered with a structured
\* client-error response and never with an unhandled fault; no order is
\* submitted and the ledger is unchanged.
C11_BadRequestIsClientError ==
    /\ [](\A h \in Handlers : h_resp[h].body # "unhandled")
    /\ [][\A h \in Handlers :
            AnsweredAtOnce(h) =>
                /\ ClientError(h_resp'[h])
                /\ exchange' = exchange
                /\ blockchain' = blockchain]_vars

\* the stored spot map as it was when the running spot update began: the
\* rows of the table give back what each stored asset held before (an amount
\* less its diff; no stored amount is zero, so zero means no entry)
SpotBefore ==
    LET done == {i \in 1..Len(table) : m_pc = "spot"}
        was(i) == RSub(table[i].amount, table[i].diff)
        fresh == {table[i].asset : i \in {j \in done : was(j) = Zero}}
    IN  [a \in DOMAIN prev_balances \ fresh |->
            IF \E i \in done : table[i].asset = a
            THEN was(CHOOSE i \in done : table[i].asset = a)
            ELSE prev_balances[a]]

\* the stored spot map as it will be when the running spot update is complete
SpotAfter ==
    LET left == {i \in m_i..Len(nonzero) : m_pc = "spot"}
    IN  [a \in DOMAIN prev_balances \cup {nonzero[i].asset : i \in left} |->
            IF \E i \in left : nonzero[i].asset = a
            THEN nonzero[CHOOSE i \in left : nonzero[i].asset = a].total
            ELSE prev_balances[a]]

\* C12: a GET /saldo concurrent with the polling cycle returns the spot map
\* as it was before the cycle's spot update began or as it is after that
\* update completed, never a map with some assets of the current poll and
\* others of the previous one.
C12_SaldoNeverTorn ==
    [][s_resp' # s_resp => s_resp'.spot \in {SpotBefore, SpotAfter}]_vars

IsPrefix(p, q) == Len(p) <= Len(q) /\ SubSeq(q, 1, Len(p)) = p

\* all four fields of a block hold what create_block puts there
BlockComplete(b) ==
    /\ DOMAIN b = {"timestamp", "operation", "hash", "prev_hash"}
    /\ b.timestamp \in Nat
    /\ b.operation # NoOp
    /\ b.hash # ""
    /\ b.prev_hash # ""

\* C13: a GET /blockchain concurrent with an append returns the chain as it
\* was before the append or as it is after it: every block returned has its
\* timestamp, operation, hash and prev_hash set, and the returned sequence is
\* a prefix of the chain after the append.
C13_LedgerReadIsPrefix ==
    /\ [](/\ IsPrefix(b_resp, blockchain)
          /\ \A i \in 1..Len(b_resp) : BlockComplete(b_resp[i]))
    /\ [][b_resp' # b_resp =>
            /\ b_resp' = blockchain
            /\ IsPrefix(b_resp', blockchain')]_vars

\* a read returned one block while the other thread was between its read of
\* the chain and its append; the append has since happened
C13_Witness ==
    /\ Len(b_resp) = 1
    /\ Len(blockchain) = 2
    /\ blockchain[2].timestamp = 1
    /\ overlap

\* C14: the ledger is append-only: it starts empty and every step of the
\* system leaves it unchanged or adds exactly one block at its end; a stored
\* block is never changed, removed or moved, so an earlier chain is a prefix
\* of every later chain.
C14_LedgerAppendOnly ==
    /\ blockchain = <<>>
    /\ [][\/ blockchain' = blockchain
          \/ /\ Len(blockchain') = Len(blockchain) + 1
             /\ IsPrefix(blockchain, blockchain')
             /\ blockchain' = Append(blockchain, blockchain'[Len(blockchain')])]_vars

\* the polling thread appended to a chain that a manual order had begun and
\* that both reads had been served from
C14_Witness ==
    /\ Len(blockchain) = 2
    /\ m_pc = "sleep"
    /\ blockchain[2] = m_block
    /\ b_resp = <<blockchain[1]>>
    /\ s_resp.spot # EmptyDict

\* the hash recomputed from a block's stored fields
Rehash(b) == sha256(b.prev_hash \o dumps(b.operation))

\* C15: in every reachable state, also after concurrent appends, every stored
\* block's hash is the digest of its own prev_hash followed by the key-sorted
\* serialization of its own operation.
C15_StoredHashRecomputes ==
    \A i \in 1..Len(blockchain) : blockchain[i].hash = Rehash(blockchain[i])

\* two appends overlapped and stored two blocks on the same prev_hash, the
\* second of an order priced by a failed lookup
C15_Witness ==
    /\ overlap
    /\ Len(blockchain) = 2
    /\ blockchain[1].prev_hash = GENESIS
    /\ blockchain[2].prev_hash = GENESIS
    /\ blockchain[2].operation.price = Zero
    /\ blockchain[1].operation.price # Zero

\* C16: appending an operation with the same side, asset, quantity and price
\* twice yields two distinct blocks whose hashes differ, the second block's
\* prev_hash being the first block's hash.
C16_SameOperationNewHash ==
    \A i, j \in 1..Len(blockchain) :
        i < j /\ blockchain[i].operation = blockchain[j].operation =>
            /\ blockchain[i].hash # blockchain[j].hash
            /\ j = i + 1 => blockchain[j].prev_hash = blockchain[i].hash

(***************************************************************************)
(* Polling cycle                                                           *)
(***************************************************************************)
Total(entry) == RAdd(float(entry.free), float(entry.locked))
NegativeSpot(account_json) ==
    \E i \in 1..Len(account_json) : RLt(Total(account_json[i]), Zero)
NoneNegative(d) == \A k \in DOMAIN d : ~RLt(d[k], Zero)

\* C17: a negative observed amount, of a spot asset or of an on-chain
\* address, is rejected and reported: the stored value of that key keeps its
\* prior value and an error for the observation is raised or logged.
C17_NegativeAmountRejected ==
    /\ [](NoneNegative(prev_balances) /\ NoneNegative(prev_onchain_btc))
    /\ [][/\ \A a \in SignedAccounts :
                MFetchOk(a) /\ NegativeSpot(a) =>
                    /\ prev_balances' = prev_balances
                    /\ log' # {} \/ m_pc' = "sleep"
          /\ \A b \in SignedOnchain :
                MOnchainOk(b) /\ RLt(b, Zero) =>
                    /\ prev_onchain_btc' = prev_onchain_btc
                    /\ log' # log]_vars

\* the steps a cycle may take, as pairs of positions of monitor_loop
CycleOrder ==
    {<<"fetch", "spot">>, <<"fetch", AfterSpot>>, <<"fetch", "sleep">>,
     <<"spot", "spot">>, <<"spot", "spot_print">>, <<"spot_print", AfterSpot>>,
     <<"onchain", "onchain">>, <<"onchain", "onchain_print">>,
     <<"onchain_print", "price">>, <<"price", "decide">>,
     <<"decide", "order">>, <<"decide", "sleep">>,
     <<"order", "create">>, <<"order", "sleep">>,
     <<"create", "append">>, <<"append", "sleep">>,
     <<"sleep", "fetch">>}

\* C18: between two consecutive account fetches of the polling loop there is
\* exactly one sleep, also after a caught exception or a failed order; within
\* a cycle the order is account fetch, on-chain lookups, BTC price fetch,
\* optional order, optional append, sleep.
C18_OneSleepPerCycle ==
    [][/\ <<m_pc, m_pc'>> \in CycleOrder
       /\ m_pc' = "fetch" <=> m_pc = "sleep"]_vars

\* a cycle whose order failed has slept and the next fetch is due
C18_Witness ==
    /\ m_pc = "fetch"
    /\ "order" \in failed
    /\ "Erro ao vender BTC" \in log

\* what the cycle's account fetch reported for an asset: its total, zero when
\* the poll left it out as a zero balance
Reported(asset) ==
    IF \E i \in 1..Len(nonzero) : nonzero[i].asset = asset
    THEN nonzero[CHOOSE i \in 1..Len(nonzero) : nonzero[i].asset = asset].total
    ELSE Zero

BetweenSpotAndOrder == {"spot_print", "onchain", "onchain_print", "price", "decide"}

\* C19: in a cycle whose account fetch succeeds, the BRL and BTC balances
\* used to decide and to size the order are those the same cycle's fetch
\* reported; an asset now reported with a zero total counts as zero, not as
\* the amount stored from an earlier poll.
C19_DecisionUsesFreshBalances ==
    /\ [](m_pc = "spot_print" =>
            StoredBRL = Reported("BRL") /\ StoredBTC = Reported("BTC"))
    /\ [][/\ m_pc = "fetch" /\ m_pc' = AfterSpot =>
                StoredBRL' = Zero /\ StoredBTC' = Zero
          /\ m_pc \in BetweenSpotAndOrder => prev_balances' = prev_balances
          /\ Deciding => m_op' = Decision(btc_price, prev_balances)]_vars

Stores == <<prev_balances, prev_onchain_btc, blockchain, exchange>>
AccountFailed == "account" \in failed

\* C20: a cycle whose account fetch fails submits no order, appends no block
\* and leaves the stored spot and on-chain balances unchanged, its on-chain
\* lookups and its decision being skipped, before it sleeps and the next
\* cycle starts.
C20_FailedFetchChangesNothing ==
    /\ [](AccountFailed /\ m_pc # "fetch" =>
            /\ m_pc = "sleep"
            /\ failed = {"account"}
            /\ table_onchain = <<>>
            /\ btc_price = Zero
            /\ m_op = NoOp
            /\ m_block = NoBlock)
    /\ [][/\ m_pc = "fetch" /\ AccountFailed' =>
                m_pc' = "sleep" /\ Stores' = Stores
          /\ m_pc = "sleep" /\ AccountFailed =>
                m_pc' = "fetch" /\ Stores' = Stores]_vars

\* the account fetch failed in a cycle that found balances, an address
\* balance and a block stored by earlier cycles; the cycle is at its sleep
C20_Witness ==
    /\ m_pc = "sleep"
    /\ AccountFailed
    /\ Len(blockchain) = 1
    /\ StoredBRL = R(10, 1)
    /\ Get(prev_onchain_btc, "addr2", Zero) = R(1, 2)

====
